---- MODULE Spec2Model ----
(***************************************************************************)
(* Enrollment capacity and counter bookkeeping of the course service:      *)
(* the Course, Batch and Enrollment collections and the service calls      *)
(* that write them (EnrollmentService, BatchService, CourseService).       *)
(*                                                                         *)
(* A call is modelled twice.  The lower-case operators (enrollStudent,     *)
(* dropEnrollment, ...) are the whole service methods as functions from a  *)
(* store to a store and a result; the actions named after them run one     *)
(* call to completion.  The step actions (EnrollStep, DropStep, ...) run   *)
(* one store operation (one await) of a call at a time, so that calls of   *)
(* different requests interleave.                                          *)
(* Live class recordings (LiveClassService) are a fourth collection, read  *)
(* and written only by the recording handlers.                             *)
(***************************************************************************)
EXTENDS Integers, Sequences, FiniteSets, TLC

\* ---- bounds of the model ------------------------------------------------
MaxCourses == 2
MaxBatches == 2
NumStudents == 2
MaxEnrollments == 2
MaxCapacity == 1
MaxDrops == 2
NumProcs == 2
MaxCalls == 5
MaxRecordings == 2
NumInstructors == 1

CourseIds == 1..MaxCourses
BatchIds == 1..MaxBatches
StudentIds == 1..NumStudents
EnrollmentIds == 1..MaxEnrollments
Procs == 1..NumProcs
Capacities == 1..MaxCapacity
\* the instructors who own Courses and Batches; the authenticated callers are
\* these and one user who owns nothing
InstructorIds == 1..NumInstructors
Callers == 1..(NumInstructors + 1)
RecordingIds == 1..MaxRecordings

\* ---- program constants ----------------------------------------------------
\* batchId is optional on a request and on an Enrollment; 0 stands for "absent"
NoBatch == 0
\* a request without an authenticated principal; 0 stands for "absent"
NoUser == 0
\* the roles the authorizer hands to a handler
Roles == {"student", "instructor", "admin"}
\* progress needed for a certificate
FullProgress == 100

\* request inputs: a free and a paid enrollment; a progress just short of
\* complete and a complete one; the statuses a caller sets
PaymentAmounts == {0, 50}
ProgressInputs == {FullProgress - 1, FullProgress}
\* the body of an updateStudentProgress request: progress is a number or not,
\* in range or just outside it; completedLessons is an array or not
ProgressBodies ==
  [isNumber : {TRUE}, value : ProgressInputs \cup {-1, FullProgress + 1},
   lessonsIsArray : BOOLEAN]
    \cup {[isNumber |-> FALSE, value |-> 0, lessonsIsArray |-> TRUE]}
EnrollmentStatus == {"active", "completed", "dropped", "suspended", "waitlisted"}
CourseStatus == {"draft", "review", "published", "archived", "suspended"}
StatusInputs == {"active", "dropped", "waitlisted"}
AddStatusInputs == {"active", "waitlisted"}

VARIABLES courses, batches, enrollments, nextId, drops, ncalls, last, calls,
          recordings

vars == <<courses, batches, enrollments, nextId, drops, ncalls, last, calls,
          recordings>>

\* The store as one value: the three collections and the id allocator.
Db == [courses |-> courses, batches |-> batches, enrollments |-> enrollments,
       nextId |-> nextId]

\* ---- store primitives -----------------------------------------------------
Restrict(f, S) == [x \in S |-> f[x]]

Extend(f, k, v) == [x \in DOMAIN f \cup {k} |-> IF x = k THEN v ELSE f[x]]

\* EnrollmentModel.findOne({studentId, courseId}): the ids of the matching records
FindByPairNotDropped(es, s, c) ==
  {e \in DOMAIN es : es[e].studentId = s /\ es[e].courseId = c
                       /\ es[e].status # "dropped"}

FindByPair(es, s, c) ==
  {e \in DOMAIN es : es[e].studentId = s /\ es[e].courseId = c}

\* Model.updateOne({_id}, {$inc: {enrolledStudents: d}}): no validators run, a
\* missing document matches nothing.
IncEnrolledClamped(coll, id, d) ==
  IF id \in DOMAIN coll
    THEN [coll EXCEPT ![id].enrolledStudents = IF @ + d < 0 THEN 0 ELSE @ + d]
    ELSE coll

IncEnrolled(coll, id, d) ==
  IF id \in DOMAIN coll
    THEN [coll EXCEPT ![id].enrolledStudents = @ + d]
    ELSE coll

\* enrollment.save() under the unique index {studentId, courseId}: a second
\* record of the same pair is refused with a duplicate key error.
SaveEnrollmentNoIndex(db, doc) ==
  [ok |-> TRUE,
   id |-> db.nextId.enrollment,
   db |-> [db EXCEPT !.enrollments = Extend(@, db.nextId.enrollment, doc),
                     !.nextId.enrollment = @ + 1]]

SaveEnrollment(db, doc) ==
  IF FindByPair(db.enrollments, doc.studentId, doc.courseId) # {}
    THEN [ok |-> FALSE, id |-> 0, db |-> db]
    ELSE [ok |-> TRUE,
          id |-> db.nextId.enrollment,
          db |-> [db EXCEPT !.enrollments = Extend(@, db.nextId.enrollment, doc),
                            !.nextId.enrollment = @ + 1]]

DuplicateKey == "E11000 duplicate key error"

\* ---- CourseService / BatchService creation -------------------------------
\* the Course belongs to the caller who created it
NewCourse(instructorId, maxStudents) ==
  [instructorId |-> instructorId, status |-> "draft",
   maxStudents |-> maxStudents, enrolledStudents |-> 0]

createCourse(db, instructorId, maxStudents) ==
  [result |-> "ok",
   db |-> [db EXCEPT !.courses = Extend(@, db.nextId.course,
                                        NewCourse(instructorId, maxStudents)),
                     !.nextId.course = @ + 1]]

\* the Batch belongs to the instructor its request body names
NewBatch(c, instructorId, maxStudents, allowWaitlist) ==
  [courseId |-> c, instructorId |-> instructorId, maxStudents |-> maxStudents,
   enrolledStudents |-> 0, waitlistCount |-> 0, allowWaitlist |-> allowWaitlist]

createBatch(db, c, instructorId, maxStudents, allowWaitlist) ==
  IF c \notin DOMAIN db.courses
    THEN [result |-> "Course not found or access denied", db |-> db]
    ELSE [result |-> "ok",
          db |-> [db EXCEPT
                    !.batches = Extend(@, db.nextId.batch,
                                       NewBatch(c, instructorId, maxStudents, allowWaitlist)),
                    !.nextId.batch = @ + 1]]

\* ---- EnrollmentService.enrollStudent --------------------------------------
EnrollRequest(s, c, b, amount) ==
  [studentId |-> s, courseId |-> c, batchId |-> b, paymentAmount |-> amount]

NewEnrollmentPending(req) ==
  [studentId |-> req.studentId, courseId |-> req.courseId, batchId |-> req.batchId,
   status |-> "active", progress |-> 0, certificateIssued |-> FALSE,
   paymentStatus |-> "pending"]

NewEnrollment(req) ==
  [studentId |-> req.studentId, courseId |-> req.courseId, batchId |-> req.batchId,
   status |-> "active", progress |-> 0, certificateIssued |-> FALSE,
   paymentStatus |-> IF req.paymentAmount > 0 THEN "pending" ELSE "paid"]

BatchOverFull(batch) == batch.enrolledStudents > batch.maxStudents

BatchFull(batch) == batch.enrolledStudents >= batch.maxStudents

\* the capacity check of enrollStudent on the batch it read

BatchRefuses(batch) == BatchFull(batch) /\ ~batch.allowWaitlist

enrollStudent(db, req) ==
  IF req.courseId \notin DOMAIN db.courses
    THEN [result |-> "Course not found", db |-> db]
  ELSE IF FindByPair(db.enrollments, req.studentId, req.courseId) # {}
    THEN [result |-> "Student already enrolled in this course", db |-> db]
  ELSE IF req.batchId # NoBatch /\ req.batchId \notin DOMAIN db.batches
    THEN [result |-> "Batch not found", db |-> db]
  ELSE IF req.batchId # NoBatch /\ BatchRefuses(db.batches[req.batchId])
    THEN [result |-> "Batch is full and waitlist is not allowed", db |-> db]
  ELSE
    LET saved == SaveEnrollment(db, NewEnrollment(req))
        d1 == saved.db
        d2 == [d1 EXCEPT !.courses = IncEnrolled(@, req.courseId, 1)]
        d3 == IF req.batchId # NoBatch
                THEN [d2 EXCEPT !.batches = IncEnrolled(@, req.batchId, 1)]
                ELSE d2
    IN IF saved.ok THEN [result |-> "ok", db |-> d3]
                   ELSE [result |-> DuplicateKey, db |-> db]

\* ---- EnrollmentService.dropEnrollment -------------------------------------
dropEnrollmentSkipsBatch(db, id) ==
  IF id \in DOMAIN db.enrollments
    THEN [result |-> "true",
          db |-> [db EXCEPT !.enrollments[id].status = "dropped",
                            !.courses = IncEnrolled(@, db.enrollments[id].courseId, -1)]]
    ELSE [result |-> "false", db |-> db]

dropEnrollmentDeletes(db, id) ==
  IF id \in DOMAIN db.enrollments
    THEN [result |-> "true",
          db |-> [db EXCEPT
                    !.enrollments = Restrict(@, DOMAIN @ \ {id}),
                    !.courses = IncEnrolled(@, db.enrollments[id].courseId, -1),
                    !.batches = IF db.enrollments[id].batchId # NoBatch
                                  THEN IncEnrolled(@, db.enrollments[id].batchId, -1)
                                  ELSE @]]
    ELSE [result |-> "false", db |-> db]

dropEnrollment(db, id) ==
  IF id \notin DOMAIN db.enrollments
    THEN [result |-> "false", db |-> db]
    ELSE
      LET enrollment == db.enrollments[id]
          d1 == [db EXCEPT !.enrollments[id].status = "dropped"]
          d2 == [d1 EXCEPT !.courses = IncEnrolled(@, enrollment.courseId, -1)]
          d3 == IF enrollment.batchId # NoBatch
                  THEN [d2 EXCEPT !.batches = IncEnrolled(@, enrollment.batchId, -1)]
                  ELSE d2
      IN [result |-> "true", db |-> d3]

\* ---- EnrollmentService: status, progress, certificate --------------------
\* findOneAndUpdate({_id}, {status}): any status of the enum, no counter touched
updateEnrollmentStatus(db, id, status) ==
  IF id \notin DOMAIN db.enrollments
    THEN [result |-> "null", db |-> db]
    ELSE [result |-> "ok", db |-> [db EXCEPT !.enrollments[id].status = status]]

updateStudentProgressResets(db, id, progress) ==
  IF id \notin DOMAIN db.enrollments
    THEN [result |-> "null", db |-> db]
    ELSE [result |-> "ok",
          db |-> [db EXCEPT !.enrollments[id].progress = progress,
                            !.enrollments[id].certificateIssued =
                               @ /\ progress = FullProgress]]

\* findOneAndUpdate({_id}, {progress, completedLessons, lastAccessedAt})
updateStudentProgress(db, id, progress) ==
  IF id \notin DOMAIN db.enrollments
    THEN [result |-> "null", db |-> db]
    ELSE [result |-> "ok", db |-> [db EXCEPT !.enrollments[id].progress = progress]]

\* the updateStudentProgress handler: the body is tested before the service
\* is called
updateStudentProgressHandlerLax(db, id, body) ==
  IF ~body.isNumber \/ body.value < 0 \/ body.value > 101
    THEN [result |-> "Progress must be a number between 0 and 100", db |-> db]
  ELSE IF ~body.lessonsIsArray
    THEN [result |-> "Completed lessons must be an array", db |-> db]
  ELSE updateStudentProgress(db, id, body.value)

updateStudentProgressHandler(db, id, body) ==
  IF ~body.isNumber \/ body.value < 0 \/ body.value > 100
    THEN [result |-> "Progress must be a number between 0 and 100", db |-> db]
  ELSE IF ~body.lessonsIsArray
    THEN [result |-> "Completed lessons must be an array", db |-> db]
  ELSE updateStudentProgress(db, id, body.value)

NotCompletedOffByOne(enrollment) == enrollment.progress < FullProgress - 1

NotCompleted(enrollment) == enrollment.progress < FullProgress

issueCertificate(db, id) ==
  IF id \notin DOMAIN db.enrollments
    THEN [result |-> "Enrollment not found", db |-> db]
  ELSE IF NotCompleted(db.enrollments[id])
    THEN [result |-> "Student has not completed the course", db |-> db]
  ELSE IF db.enrollments[id].certificateIssued
    THEN [result |-> "Certificate already issued", db |-> db]
  ELSE [result |-> "ok",
        db |-> [db EXCEPT !.enrollments[id].certificateIssued = TRUE]]

\* ---- BatchService ---------------------------------------------------------
\* The updateBatch handler hands the request body to the service as it came:
\* any path of the Batch schema can be set, the counters included.
BatchPatches ==
  [field : {"maxStudents"}, value : Capacities]
    \cup [field : {"allowWaitlist"}, value : BOOLEAN]
    \cup [field : {"enrolledStudents"}, value : {0}]
    \cup [field : {"waitlistCount"}, value : {1}]

ApplyBatchPatch(batch, patch) ==
  CASE patch.field = "maxStudents" -> [batch EXCEPT !.maxStudents = patch.value]
    [] patch.field = "allowWaitlist" -> [batch EXCEPT !.allowWaitlist = patch.value]
    [] patch.field = "enrolledStudents" -> [batch EXCEPT !.enrolledStudents = patch.value]
    [] patch.field = "waitlistCount" -> [batch EXCEPT !.waitlistCount = patch.value]

\* instructorId is the caller: the filter of the update is {_id} alone
updateBatch(db, id, patch, instructorId) ==
  IF id \notin DOMAIN db.batches
    THEN [result |-> "null", db |-> db]
    ELSE [result |-> "ok",
          db |-> [db EXCEPT !.batches[id] = ApplyBatchPatch(@, patch)]]

EnrollmentsOfBatch(es, b) == {e \in DOMAIN es : es[e].batchId = b}

EnrollmentsOfCourseNotDropped(es, c) ==
  {e \in DOMAIN es : es[e].courseId = c /\ es[e].status # "dropped"}

EnrollmentsOfCourse(es, c) == {e \in DOMAIN es : es[e].courseId = c}

deleteBatch(db, id, instructorId) ==
  IF EnrollmentsOfBatch(db.enrollments, id) # {}
    THEN [result |-> "Cannot delete batch with active enrollments", db |-> db]
  ELSE IF id \in DOMAIN db.batches
    THEN [result |-> "true",
          db |-> [db EXCEPT !.batches = Restrict(@, DOMAIN @ \ {id})]]
  ELSE [result |-> "false", db |-> db]

\* the document addStudentToBatch builds: schema defaults for the rest
AddedEnrollment(batch, b, s, status) ==
  [studentId |-> s, courseId |-> batch.courseId, batchId |-> b,
   status |-> status, progress |-> 0, certificateIssued |-> FALSE,
   paymentStatus |-> "pending"]

addStudentToBatchHonoursWaitlist(db, b, s, status) ==
  IF b \notin DOMAIN db.batches
    THEN [result |-> "Batch not found or access denied", db |-> db]
  ELSE IF FindByPair(db.enrollments, s, db.batches[b].courseId) # {}
    THEN [result |-> "Student already enrolled in this course", db |-> db]
  ELSE IF BatchRefuses(db.batches[b])
    THEN [result |-> "Batch is full", db |-> db]
  ELSE
    LET saved == SaveEnrollment(db, AddedEnrollment(db.batches[b], b, s, status))
        d1 == saved.db
        d2 == [d1 EXCEPT !.batches = IncEnrolled(@, b, 1)]
    IN IF saved.ok THEN [result |-> "ok", db |-> d2]
                   ELSE [result |-> DuplicateKey, db |-> db]

addStudentToBatch(db, b, s, status) ==
  IF b \notin DOMAIN db.batches
    THEN [result |-> "Batch not found or access denied", db |-> db]
  ELSE IF FindByPair(db.enrollments, s, db.batches[b].courseId) # {}
    THEN [result |-> "Student already enrolled in this course", db |-> db]
  ELSE IF BatchFull(db.batches[b])
    THEN [result |-> "Batch is full", db |-> db]
  ELSE
    LET saved == SaveEnrollment(db, AddedEnrollment(db.batches[b], b, s, status))
        d1 == saved.db
        d2 == [d1 EXCEPT !.batches = IncEnrolled(@, b, 1)]
    IN IF saved.ok THEN [result |-> "ok", db |-> d2]
                   ELSE [result |-> DuplicateKey, db |-> db]

\* EnrollmentModel.deleteOne({batchId, studentId}): the records it may delete
RemovalMatches(es, b, s) ==
  {e \in DOMAIN es : es[e].batchId = b /\ es[e].studentId = s}

removeStudentFromBatchSoft(db, b, s, pick) ==
  IF b \notin DOMAIN db.batches
    THEN [result |-> "Batch not found or access denied", db |-> db]
  ELSE IF pick \in RemovalMatches(db.enrollments, b, s)
    THEN [result |-> "true",
          db |-> [db EXCEPT !.enrollments[pick].status = "dropped",
                            !.batches = IncEnrolled(@, b, -1)]]
  ELSE [result |-> "false", db |-> db]

\* `pick` is the record deleteOne removes: one of RemovalMatches, or 0 if none
removeStudentFromBatch(db, b, s, pick) ==
  IF b \notin DOMAIN db.batches
    THEN [result |-> "Batch not found or access denied", db |-> db]
  ELSE IF pick \in RemovalMatches(db.enrollments, b, s)
    THEN LET d1 == [db EXCEPT !.enrollments = Restrict(@, DOMAIN @ \ {pick})]
             d2 == [d1 EXCEPT !.batches = IncEnrolled(@, b, -1)]
         IN [result |-> "true", db |-> d2]
  ELSE [result |-> "false", db |-> db]

\* ---- CourseService --------------------------------------------------------
\* updateCourseSchema admits maxStudents, not enrolledStudents
updateCourse(db, id, maxStudents, instructorId) ==
  IF id \notin DOMAIN db.courses
    THEN [result |-> "null", db |-> db]
    ELSE [result |-> "ok", db |-> [db EXCEPT !.courses[id].maxStudents = maxStudents]]

deleteCourse(db, id, instructorId) ==
  IF EnrollmentsOfCourse(db.enrollments, id) # {}
    THEN [result |-> "Cannot delete course with active enrollments", db |-> db]
  ELSE IF id \in DOMAIN db.courses
    THEN [result |-> "true",
          db |-> [db EXCEPT !.courses = Restrict(@, DOMAIN @ \ {id})]]
  ELSE [result |-> "false", db |-> db]

\* findOneAndUpdate({_id}, {status})
updateCourseStatus(db, id, status, instructorId) ==
  IF id \notin DOMAIN db.courses
    THEN [result |-> "null", db |-> db]
    ELSE [result |-> "ok", db |-> [db EXCEPT !.courses[id].status = status]]

publishCourse(db, id, instructorId) ==
  IF id \notin DOMAIN db.courses
    THEN [result |-> "null", db |-> db]
    ELSE [result |-> "ok", db |-> [db EXCEPT !.courses[id].status = "published"]]

archiveCourse(db, id, instructorId) ==
  IF id \notin DOMAIN db.courses
    THEN [result |-> "null", db |-> db]
    ELSE [result |-> "ok", db |-> [db EXCEPT !.courses[id].status = "archived"]]

\* ---- HTTP handlers: the status code of the response ----------------------
\* String.prototype.includes
Includes(s, t) ==
  \E i \in 1..(Len(s) - Len(t) + 1) : SubSeq(s, i, i + Len(t) - 1) = t

\* handleError: the status is chosen by the text of the error's message
handleError(message) ==
  IF Includes(message, "Validation error") THEN 400
  ELSE IF Includes(message, "not found") THEN 404
  ELSE IF Includes(message, "already exists") THEN 409
  ELSE IF Includes(message, "Unauthorized") THEN 401
  ELSE IF Includes(message, "Forbidden") THEN 403
  ELSE 500

\* what a service method returns; every other result is the message of an
\* Error it threw
Returned == {"ok", "true", "false", "null"}

\* the handlers that answer 201 on success
CreatedOps == {"createCourse", "createBatch", "enrollStudent", "addStudentToBatch"}

\* the answers a handler gives by itself, with status 400, to a body it rejects
Rejected == {"Progress must be a number between 0 and 100",
             "Completed lessons must be an array"}

\* A handler (its caller authenticated): a body it rejects is answered 400, a
\* thrown error goes through handleError, a null or false result is answered
\* 404, anything else is a success.
Respond(op, result) ==
  IF result \in Rejected THEN 400
  ELSE IF result \notin Returned THEN handleError(result)
  ELSE IF result \in {"false", "null"} THEN 404
  ELSE IF op \in CreatedOps THEN 201
  ELSE 200

\* ---- the state ------------------------------------------------------------
\* A call in flight: its position (pc), its request, what it has read so far
\* (course and batch of the record a drop read; course and fullness of the
\* batch an add read) and, once done, its result.
Idle == [pc |-> "idle", op |-> "none", student |-> 0, course |-> 0, batch |-> 0,
         amount |-> 0, status |-> "none", enr |-> 0, full |-> FALSE,
         result |-> "none"]

Finished(call) == call.pc \in {"idle", "done"}

Done(call, result) == [call EXCEPT !.pc = "done", !.result = result]

\* the last call that ran to completion and what it answered
NoCall == [op |-> "none", result |-> "none"]

Call(op, result) == [op |-> op, result |-> result]

\* ---- live class recordings --------------------------------------------------
\* the students with an active Enrollment in a batch of a course
ActiveStudentsOfBatch(es, c, b) ==
  {es[e].studentId : e \in {x \in DOMAIN es : /\ es[x].courseId = c
                                               /\ es[x].batchId = b
                                               /\ es[x].status = "active"}}

\* LiveClassService.createRecording: the body's fields, then the access lists
createRecording(es, recs, data) ==
  Append(recs, [courseId |-> data.courseId, batchId |-> data.batchId,
                isPublic |-> data.isPublic,
                allowedStudentIds |->
                  ActiveStudentsOfBatch(es, data.courseId, data.batchId),
                allowedBatchIds |-> {data.batchId}])

\* the createRecording handler: instructors and admins only
createRecordingHandler(es, recs, userId, userRole, data) ==
  IF userId = NoUser \/ userRole \notin {"admin", "instructor"}
    THEN [status |-> 403, error |-> "Insufficient permissions", recordings |-> recs]
    ELSE [status |-> 201, error |-> "ok",
          recordings |-> createRecording(es, recs, data)]

\* what getRecording lets a student see
hasAccess(recording, userId) ==
  \/ recording.isPublic
  \/ userId \in recording.allowedStudentIds
  \/ Cardinality(recording.allowedBatchIds) > 0

\* the getRecording handler
getRecordingHandler(recs, recordingId, userId, userRole) ==
  IF userId = NoUser
    THEN [status |-> 401, error |-> "Authentication required"]
  ELSE IF recordingId \notin DOMAIN recs
    THEN [status |-> 404, error |-> "Recording not found"]
  ELSE IF userRole = "student" /\ ~hasAccess(recs[recordingId], userId)
    THEN [status |-> 403, error |-> "Access denied to this recording"]
  ELSE [status |-> 200, error |-> "ok"]

Init ==
  /\ courses = << >>
  /\ batches = << >>
  /\ enrollments = << >>
  /\ nextId = [course |-> 1, batch |-> 1, enrollment |-> 1]
  /\ drops = [e \in EnrollmentIds |-> 0]
  /\ ncalls = 0
  /\ last = NoCall
  /\ calls = [p \in Procs |-> Idle]
  /\ recordings = << >>

SetDb(db) ==
  /\ courses' = db.courses
  /\ batches' = db.batches
  /\ enrollments' = db.enrollments
  /\ nextId' = db.nextId

\* ---- calls run to completion, one at a time -------------------------------
\* A step of a specification that bounds the number of calls of a run, and one
\* of a specification that does not.
\* a call of the course, batch and enrollment services; none of them writes
\* the recordings collection
Counted(A) == ncalls < MaxCalls /\ A /\ ncalls' = ncalls + 1 /\ UNCHANGED recordings

Free(A) == A /\ UNCHANGED <<ncalls, recordings>>

CreateCourse ==
  /\ nextId.course <= MaxCourses
  /\ \E caller \in InstructorIds, m \in Capacities :
       LET r == createCourse(Db, caller, m)
       IN /\ SetDb(r.db)
          /\ last' = Call("createCourse", r.result)
  /\ UNCHANGED <<drops, calls>>

CreateBatch ==
  /\ nextId.batch <= MaxBatches
  /\ \E c \in CourseIds, i \in InstructorIds, m \in Capacities, w \in BOOLEAN :
       LET r == createBatch(Db, c, i, m, w)
       IN /\ SetDb(r.db)
          /\ last' = Call("createBatch", r.result)
  /\ UNCHANGED <<drops, calls>>

EnrollStudent ==
  /\ nextId.enrollment <= MaxEnrollments
  /\ \E s \in StudentIds, c \in CourseIds, b \in BatchIds \cup {NoBatch},
        amount \in PaymentAmounts :
       LET r == enrollStudent(Db, EnrollRequest(s, c, b, amount))
       IN /\ SetDb(r.db)
          /\ last' = Call("enrollStudent", r.result)
  /\ UNCHANGED <<drops, calls>>

DropEnrollment ==
  /\ \E id \in EnrollmentIds :
       /\ drops[id] < MaxDrops
       /\ LET r == dropEnrollment(Db, id)
          IN /\ SetDb(r.db)
             /\ last' = Call("dropEnrollment", r.result)
             /\ drops' = IF r.result = "true" THEN [drops EXCEPT ![id] = @ + 1]
                                              ELSE drops
  /\ UNCHANGED calls

NextEnrollDrop ==
  \/ Free(CreateCourse)
  \/ Free(CreateBatch)
  \/ Free(EnrollStudent)
  \/ Free(DropEnrollment)

SpecEnrollDrop == Init /\ [][NextEnrollDrop]_vars

UpdateStudentProgress ==
  /\ \E id \in EnrollmentIds, body \in ProgressBodies :
       LET r == updateStudentProgressHandler(Db, id, body)
       IN /\ SetDb(r.db)
          /\ last' = Call("updateStudentProgress", r.result)
  /\ UNCHANGED <<drops, calls>>

IssueCertificate ==
  /\ \E id \in EnrollmentIds :
       LET r == issueCertificate(Db, id)
       IN /\ SetDb(r.db)
          /\ last' = Call("issueCertificate", r.result)
  /\ UNCHANGED <<drops, calls>>

NextCertificate ==
  \/ Free(CreateCourse)
  \/ Free(EnrollStudent)
  \/ Free(UpdateStudentProgress)
  \/ Free(IssueCertificate)

SpecCertificate == Init /\ [][NextCertificate]_vars

UpdateEnrollmentStatus ==
  /\ \E id \in EnrollmentIds, status \in StatusInputs :
       LET r == updateEnrollmentStatus(Db, id, status)
       IN /\ SetDb(r.db)
          /\ last' = Call("updateEnrollmentStatus", r.result)
  /\ UNCHANGED <<drops, calls>>

UpdateBatch ==
  /\ \E id \in BatchIds, patch \in BatchPatches, caller \in Callers :
       LET r == updateBatch(Db, id, patch, caller)
       IN /\ SetDb(r.db)
          /\ last' = Call("updateBatch", r.result)
  /\ UNCHANGED <<drops, calls>>

UpdateCourse ==
  /\ \E id \in CourseIds, m \in Capacities, caller \in Callers :
       LET r == updateCourse(Db, id, m, caller)
       IN /\ SetDb(r.db)
          /\ last' = Call("updateCourse", r.result)
  /\ UNCHANGED <<drops, calls>>

DeleteBatch ==
  /\ \E id \in BatchIds, caller \in Callers :
       LET r == deleteBatch(Db, id, caller)
       IN /\ SetDb(r.db)
          /\ last' = Call("deleteBatch", r.result)
  /\ UNCHANGED <<drops, calls>>

DeleteCourse ==
  /\ \E id \in CourseIds, caller \in Callers :
       LET r == deleteCourse(Db, id, caller)
       IN /\ SetDb(r.db)
          /\ last' = Call("deleteCourse", r.result)
  /\ UNCHANGED <<drops, calls>>

AddStudentToBatch ==
  /\ nextId.enrollment <= MaxEnrollments
  /\ \E b \in BatchIds, s \in StudentIds, status \in AddStatusInputs :
       LET r == addStudentToBatch(Db, b, s, status)
       IN /\ SetDb(r.db)
          /\ last' = Call("addStudentToBatch", r.result)
  /\ UNCHANGED <<drops, calls>>

RemoveStudentFromBatch ==
  /\ \E b \in BatchIds, s \in StudentIds :
       \E pick \in IF RemovalMatches(enrollments, b, s) = {}
                     THEN {0} ELSE RemovalMatches(enrollments, b, s) :
         LET r == removeStudentFromBatch(Db, b, s, pick)
         IN /\ SetDb(r.db)
            /\ last' = Call("removeStudentFromBatch", r.result)
  /\ UNCHANGED <<drops, calls>>

Next ==
  \/ Counted(CreateCourse)
  \/ Counted(CreateBatch)
  \/ Counted(EnrollStudent)
  \/ Counted(DropEnrollment)
  \/ Counted(UpdateEnrollmentStatus)
  \/ Counted(UpdateStudentProgress)
  \/ Counted(IssueCertificate)
  \/ Counted(UpdateBatch)
  \/ Counted(UpdateCourse)
  \/ Counted(DeleteBatch)
  \/ Counted(DeleteCourse)
  \/ Counted(AddStudentToBatch)
  \/ Counted(RemoveStudentFromBatch)

Spec == Init /\ [][Next]_vars

PublishCourse ==
  /\ \E id \in CourseIds, caller \in Callers :
       LET r == publishCourse(Db, id, caller)
       IN /\ SetDb(r.db)
          /\ last' = Call("publishCourse", r.result)
  /\ UNCHANGED <<drops, calls>>

ArchiveCourse ==
  /\ \E id \in CourseIds, caller \in Callers :
       LET r == archiveCourse(Db, id, caller)
       IN /\ SetDb(r.db)
          /\ last' = Call("archiveCourse", r.result)
  /\ UNCHANGED <<drops, calls>>

UpdateCourseStatus ==
  /\ \E id \in CourseIds, status \in CourseStatus, caller \in Callers :
       LET r == updateCourseStatus(Db, id, status, caller)
       IN /\ SetDb(r.db)
          /\ last' = Call("updateCourseStatus", r.result)
  /\ UNCHANGED <<drops, calls>>

\* the calls that an instructor makes on Courses and Batches, one at a time
NextOwnership ==
  \/ Free(CreateCourse)
  \/ Free(CreateBatch)
  \/ Free(UpdateCourse)
  \/ Free(DeleteCourse)
  \/ Free(PublishCourse)
  \/ Free(ArchiveCourse)
  \/ Free(UpdateCourseStatus)
  \/ Free(UpdateBatch)
  \/ Free(DeleteBatch)

SpecOwnership == Init /\ [][NextOwnership]_vars

\* the calls on one Enrollment after it was created, one at a time
NextLifecycle ==
  \/ Free(CreateCourse)
  \/ Free(EnrollStudent)
  \/ Free(UpdateStudentProgress)
  \/ Free(UpdateEnrollmentStatus)
  \/ Free(DropEnrollment)
  \/ Free(IssueCertificate)

SpecLifecycle == Init /\ [][NextLifecycle]_vars

\* the calls that enter and leave the roster of a Batch, one at a time
NextRoster ==
  \/ Free(CreateCourse)
  \/ Free(CreateBatch)
  \/ Free(EnrollStudent)
  \/ Free(DropEnrollment)
  \/ Free(AddStudentToBatch)
  \/ Free(RemoveStudentFromBatch)

SpecRoster == Init /\ [][NextRoster]_vars

\* ---- calls run one store operation at a time ------------------------------
\* Every step is one awaited store operation of the service method; a call
\* starts with its first read.  The store itself is untouched by a read.
Reads == UNCHANGED <<courses, batches, enrollments, nextId>>

SetCall(p, call) == calls' = [calls EXCEPT ![p] = call]

\* enrollStudent: findOne(course)
EnrollStart(p) ==
  /\ Finished(calls[p])
  /\ nextId.enrollment <= MaxEnrollments
  /\ \E s \in StudentIds, c \in CourseIds, b \in BatchIds \cup {NoBatch},
        amount \in PaymentAmounts :
       LET call == [Idle EXCEPT !.op = "enrollStudent", !.student = s, !.course = c,
                                !.batch = b, !.amount = amount]
       IN IF c \notin DOMAIN courses
            THEN SetCall(p, Done(call, "Course not found"))
            ELSE SetCall(p, [call EXCEPT !.pc = "findEnrollment"])
  /\ Reads
  /\ UNCHANGED <<drops, last>>

\* enrollStudent: findOne(enrollment), findOne(batch), save, $inc, $inc
EnrollStep(p) ==
  LET call == calls[p]
      req == EnrollRequest(call.student, call.course, call.batch, call.amount)
  IN
  /\ call.op = "enrollStudent"
  /\ \/ /\ call.pc = "findEnrollment"
        /\ IF FindByPair(enrollments, call.student, call.course) # {}
             THEN SetCall(p, Done(call, "Student already enrolled in this course"))
             ELSE SetCall(p, [call EXCEPT !.pc = IF call.batch # NoBatch
                                                   THEN "findBatch" ELSE "save"])
        /\ Reads
     \/ /\ call.pc = "findBatch"
        /\ IF call.batch \notin DOMAIN batches
             THEN SetCall(p, Done(call, "Batch not found"))
           ELSE IF BatchRefuses(batches[call.batch])
             THEN SetCall(p, Done(call, "Batch is full and waitlist is not allowed"))
           ELSE SetCall(p, [call EXCEPT !.pc = "save"])
        /\ Reads
     \/ /\ call.pc = "save"
        /\ LET saved == SaveEnrollment(Db, NewEnrollment(req))
           IN /\ SetDb(saved.db)
              /\ IF saved.ok
                   THEN SetCall(p, [call EXCEPT !.pc = "incCourse", !.enr = saved.id])
                   ELSE SetCall(p, Done(call, DuplicateKey))
     \/ /\ call.pc = "incCourse"
        /\ courses' = IncEnrolled(courses, call.course, 1)
        /\ IF call.batch # NoBatch
             THEN SetCall(p, [call EXCEPT !.pc = "incBatch"])
             ELSE SetCall(p, Done(call, "ok"))
        /\ UNCHANGED <<batches, enrollments, nextId>>
     \/ /\ call.pc = "incBatch"
        /\ batches' = IncEnrolled(batches, call.batch, 1)
        /\ SetCall(p, Done(call, "ok"))
        /\ UNCHANGED <<courses, enrollments, nextId>>
  /\ UNCHANGED <<drops, last>>

\* dropEnrollment: findOne(enrollment)
DropStart(p) ==
  /\ Finished(calls[p])
  /\ \E id \in EnrollmentIds :
       /\ drops[id] < MaxDrops
       /\ LET call == [Idle EXCEPT !.op = "dropEnrollment", !.enr = id]
          IN IF id \notin DOMAIN enrollments
               THEN /\ SetCall(p, Done(call, "false"))
                    /\ UNCHANGED drops
               ELSE /\ SetCall(p, [call EXCEPT !.pc = "setStatus",
                                               !.course = enrollments[id].courseId,
                                               !.batch = enrollments[id].batchId])
                    /\ drops' = [drops EXCEPT ![id] = @ + 1]
  /\ Reads
  /\ UNCHANGED last

\* dropEnrollment: updateOne(status), $inc -1, $inc -1
DropStep(p) ==
  LET call == calls[p]
  IN
  /\ call.op = "dropEnrollment"
  /\ \/ /\ call.pc = "setStatus"
        /\ enrollments' = IF call.enr \in DOMAIN enrollments
                            THEN [enrollments EXCEPT ![call.enr].status = "dropped"]
                            ELSE enrollments
        /\ SetCall(p, [call EXCEPT !.pc = "decCourse"])
        /\ UNCHANGED <<courses, batches, nextId>>
     \/ /\ call.pc = "decCourse"
        /\ courses' = IncEnrolled(courses, call.course, -1)
        /\ IF call.batch # NoBatch
             THEN SetCall(p, [call EXCEPT !.pc = "decBatch"])
             ELSE SetCall(p, Done(call, "true"))
        /\ UNCHANGED <<batches, enrollments, nextId>>
     \/ /\ call.pc = "decBatch"
        /\ batches' = IncEnrolled(batches, call.batch, -1)
        /\ SetCall(p, Done(call, "true"))
        /\ UNCHANGED <<courses, enrollments, nextId>>
  /\ UNCHANGED <<drops, last>>

\* what a call ends with when the process dies or the store rejects an update
Stopped == "stopped"

EnrollStopRollsBack(p) ==
  LET call == calls[p]
  IN
  /\ call.op = "enrollStudent"
  /\ call.pc \in {"incCourse", "incBatch"}
  /\ SetCall(p, Done(call, Stopped))
  /\ enrollments' = Restrict(enrollments, DOMAIN enrollments \ {call.enr})
  /\ UNCHANGED <<courses, batches, nextId, drops, last>>

\* enrollStudent after its insert: the process dies, or an updateOne rejects
\* and the error leaves the method, which has no catch and no transaction
EnrollStop(p) ==
  LET call == calls[p]
  IN
  /\ call.op = "enrollStudent"
  /\ call.pc \in {"incCourse", "incBatch"}
  /\ SetCall(p, Done(call, Stopped))
  /\ Reads
  /\ UNCHANGED <<drops, last>>

\* enrollStudent calls that may stop between their store operations
NextEnrollStop ==
  \/ Counted(CreateCourse)
  \/ Counted(CreateBatch)
  \/ \E p \in Procs : Counted(EnrollStart(p))
  \/ \E p \in Procs : Free(EnrollStep(p))
  \/ \E p \in Procs : Free(EnrollStop(p))

SpecEnrollStop == Init /\ [][NextEnrollStop]_vars

NextConcEnrollDrop ==
  \/ Counted(CreateCourse)
  \/ Counted(CreateBatch)
  \/ \E p \in Procs : Counted(EnrollStart(p))
  \/ \E p \in Procs : Free(EnrollStep(p))
  \/ \E p \in Procs : Counted(DropStart(p))
  \/ \E p \in Procs : Free(DropStep(p))

SpecConcEnrollDrop == Init /\ [][NextConcEnrollDrop]_vars

\* addStudentToBatch: findOne(batch)
AddStart(p) ==
  /\ Finished(calls[p])
  /\ nextId.enrollment <= MaxEnrollments
  /\ \E b \in BatchIds, s \in StudentIds, status \in AddStatusInputs :
       LET call == [Idle EXCEPT !.op = "addStudentToBatch", !.student = s,
                                !.batch = b, !.status = status]
       IN IF b \notin DOMAIN batches
            THEN SetCall(p, Done(call, "Batch not found or access denied"))
            ELSE SetCall(p, [call EXCEPT !.pc = "findEnrollment",
                                         !.course = batches[b].courseId,
                                         !.full = BatchFull(batches[b])])
  /\ Reads
  /\ UNCHANGED <<drops, last>>

\* addStudentToBatch: findOne(enrollment) and the capacity check on the batch
\* as it was read, save, $inc
AddStep(p) ==
  LET call == calls[p]
      batch == [courseId |-> call.course]
  IN
  /\ call.op = "addStudentToBatch"
  /\ \/ /\ call.pc = "findEnrollment"
        /\ IF FindByPair(enrollments, call.student, call.course) # {}
             THEN SetCall(p, Done(call, "Student already enrolled in this course"))
           ELSE IF call.full
             THEN SetCall(p, Done(call, "Batch is full"))
           ELSE SetCall(p, [call EXCEPT !.pc = "save"])
        /\ Reads
     \/ /\ call.pc = "save"
        /\ LET saved == SaveEnrollment(Db, AddedEnrollment(batch, call.batch,
                                                           call.student, call.status))
           IN /\ SetDb(saved.db)
              /\ IF saved.ok
                   THEN SetCall(p, [call EXCEPT !.pc = "incBatch", !.enr = saved.id])
                   ELSE SetCall(p, Done(call, DuplicateKey))
     \/ /\ call.pc = "incBatch"
        /\ batches' = IncEnrolled(batches, call.batch, 1)
        /\ SetCall(p, Done(call, "ok"))
        /\ UNCHANGED <<courses, enrollments, nextId>>
  /\ UNCHANGED <<drops, last>>

NextConcEnroll ==
  \/ Counted(CreateCourse)
  \/ Counted(CreateBatch)
  \/ \E p \in Procs : Counted(EnrollStart(p))
  \/ \E p \in Procs : Free(EnrollStep(p))
  \/ \E p \in Procs : Counted(AddStart(p))
  \/ \E p \in Procs : Free(AddStep(p))

SpecConcEnroll == Init /\ [][NextConcEnroll]_vars

\* issueCertificate: findOne(enrollment) and the two checks on what it read
IssueStart(p) ==
  /\ Finished(calls[p])
  /\ \E id \in EnrollmentIds :
       LET call == [Idle EXCEPT !.op = "issueCertificate", !.enr = id]
       IN IF id \notin DOMAIN enrollments
            THEN SetCall(p, Done(call, "Enrollment not found"))
          ELSE IF NotCompleted(enrollments[id])
            THEN SetCall(p, Done(call, "Student has not completed the course"))
          ELSE IF enrollments[id].certificateIssued
            THEN SetCall(p, Done(call, "Certificate already issued"))
          ELSE SetCall(p, [call EXCEPT !.pc = "setIssued"])
  /\ Reads
  /\ UNCHANGED <<drops, last>>

\* issueCertificate: findOneAndUpdate({_id}, {certificateIssued: true})
IssueStep(p) ==
  LET call == calls[p]
  IN
  /\ call.op = "issueCertificate"
  /\ call.pc = "setIssued"
  /\ IF call.enr \in DOMAIN enrollments
       THEN /\ enrollments' = [enrollments EXCEPT ![call.enr].certificateIssued = TRUE]
            /\ SetCall(p, Done(call, "ok"))
       ELSE /\ UNCHANGED enrollments
            /\ SetCall(p, Done(call, "null"))
  /\ UNCHANGED <<courses, batches, nextId, drops, last>>

NextConcCertificate ==
  \/ Counted(CreateCourse)
  \/ \E p \in Procs : Counted(EnrollStart(p))
  \/ \E p \in Procs : Free(EnrollStep(p))
  \/ Counted(UpdateStudentProgress)
  \/ \E p \in Procs : Counted(IssueStart(p))
  \/ \E p \in Procs : Free(IssueStep(p))

SpecConcCertificate == Init /\ [][NextConcCertificate]_vars

\* deleteCourse: countDocuments({courseId})
DeleteCourseStart(p) ==
  /\ Finished(calls[p])
  /\ \E id \in CourseIds :
       LET call == [Idle EXCEPT !.op = "deleteCourse", !.course = id]
       IN IF EnrollmentsOfCourse(enrollments, id) # {}
            THEN SetCall(p, Done(call, "Cannot delete course with active enrollments"))
            ELSE SetCall(p, [call EXCEPT !.pc = "deleteOne"])
  /\ Reads
  /\ UNCHANGED <<drops, last>>

\* deleteCourse: deleteOne({_id})
DeleteCourseStep(p) ==
  LET call == calls[p]
  IN
  /\ call.op = "deleteCourse"
  /\ call.pc = "deleteOne"
  /\ courses' = Restrict(courses, DOMAIN courses \ {call.course})
  /\ SetCall(p, Done(call, IF call.course \in DOMAIN courses THEN "true" ELSE "false"))
  /\ UNCHANGED <<batches, enrollments, nextId, drops, last>>

\* deleteBatch: countDocuments({batchId})
DeleteBatchStart(p) ==
  /\ Finished(calls[p])
  /\ \E id \in BatchIds :
       LET call == [Idle EXCEPT !.op = "deleteBatch", !.batch = id]
       IN IF EnrollmentsOfBatch(enrollments, id) # {}
            THEN SetCall(p, Done(call, "Cannot delete batch with active enrollments"))
            ELSE SetCall(p, [call EXCEPT !.pc = "deleteOne"])
  /\ Reads
  /\ UNCHANGED <<drops, last>>

\* deleteBatch: deleteOne({_id})
DeleteBatchStep(p) ==
  LET call == calls[p]
  IN
  /\ call.op = "deleteBatch"
  /\ call.pc = "deleteOne"
  /\ batches' = Restrict(batches, DOMAIN batches \ {call.batch})
  /\ SetCall(p, Done(call, IF call.batch \in DOMAIN batches THEN "true" ELSE "false"))
  /\ UNCHANGED <<courses, enrollments, nextId, drops, last>>

\* deletes running beside the calls that create Enrollments
NextConcDelete ==
  \/ Counted(CreateCourse)
  \/ Counted(CreateBatch)
  \/ \E p \in Procs : Counted(EnrollStart(p))
  \/ \E p \in Procs : Free(EnrollStep(p))
  \/ \E p \in Procs : Counted(AddStart(p))
  \/ \E p \in Procs : Free(AddStep(p))
  \/ \E p \in Procs : Counted(DeleteCourseStart(p))
  \/ \E p \in Procs : Free(DeleteCourseStep(p))
  \/ \E p \in Procs : Counted(DeleteBatchStart(p))
  \/ \E p \in Procs : Free(DeleteBatchStep(p))

SpecConcDelete == Init /\ [][NextConcDelete]_vars

\* ---- recordings made and fetched beside enrollments ---------------------------
CreateRecording ==
  /\ Len(recordings) < MaxRecordings
  /\ ncalls < MaxCalls
  /\ ncalls' = ncalls + 1
  /\ \E userId \in Callers \cup {NoUser}, userRole \in Roles,
        c \in CourseIds, b \in BatchIds, isPublic \in BOOLEAN :
       LET r == createRecordingHandler(enrollments, recordings, userId, userRole,
                  [courseId |-> c, batchId |-> b, isPublic |-> isPublic])
       IN /\ recordings' = r.recordings
          /\ last' = Call("createRecording", r.error)
  /\ Reads
  /\ UNCHANGED <<drops, calls>>

GetRecording ==
  /\ \E id \in RecordingIds, userId \in StudentIds \cup {NoUser}, userRole \in Roles :
       last' = Call("getRecording",
                    getRecordingHandler(recordings, id, userId, userRole).error)
  /\ Reads
  /\ UNCHANGED <<drops, calls, ncalls, recordings>>

NextRecording ==
  \/ Counted(CreateCourse)
  \/ Counted(CreateBatch)
  \/ Counted(EnrollStudent)
  \/ Counted(DropEnrollment)
  \/ CreateRecording
  \/ GetRecording

SpecRecording == Init /\ [][NextRecording]_vars

\* ---- properties -----------------------------------------------------------
\* the Enrollments of course c (of batch b) that are not dropped
LiveOfCourse(es, c) ==
  {e \in DOMAIN es : es[e].courseId = c /\ es[e].status # "dropped"}

LiveOfBatch(es, b) ==
  {e \in DOMAIN es : es[e].batchId = b /\ es[e].status # "dropped"}

\* some Enrollment record of the pair (s, c) exists
HasRecord(es, s, c) ==
  \E e \in DOMAIN es : es[e].studentId = s /\ es[e].courseId = c

AllFinished == \A p \in Procs : Finished(calls[p])

\* the call of this step was dropEnrollment(id) and it found the record
DroppedNow(id) == drops'[id] = drops[id] + 1

\* C1: after any sequence of completed enrollStudent and dropEnrollment calls,
\* every Course's enrolledStudents equals the number of its Enrollment records
\* whose status is not dropped.
C1_CourseCounterMatches ==
  \A c \in DOMAIN courses :
    courses[c].enrolledStudents = Cardinality(LiveOfCourse(enrollments, c))

\* C2: dropEnrollment on an Enrollment that is already dropped reports success
\* and changes nothing: the status stays dropped and neither counter is
\* decremented again.
C2_SecondDropIsNoOp ==
  [][\A id \in DOMAIN enrollments :
       (enrollments[id].status = "dropped" /\ DroppedNow(id))
         => /\ last'.result = "true"
            /\ enrollments' = enrollments
            /\ courses' = courses
            /\ batches' = batches]_vars

\* C3: enrollStudent for a (studentId, courseId) pair of an existing Course that
\* already has an Enrollment record fails with 'Student already enrolled in
\* this course' and leaves the Enrollments and both counters as they were.
C3_DuplicateEnrollRefused ==
  \A s \in StudentIds, c \in DOMAIN courses, b \in BatchIds \cup {NoBatch},
     amount \in PaymentAmounts :
    HasRecord(enrollments, s, c)
      => LET r == enrollStudent(Db, EnrollRequest(s, c, b, amount))
         IN /\ r.result = "Student already enrolled in this course"
            /\ r.db = Db

C3_Witness ==
  /\ last = Call("enrollStudent", "Student already enrolled in this course")
  /\ \E s \in StudentIds, c \in DOMAIN courses : HasRecord(enrollments, s, c)

\* C4: enrollStudent (of a student with no Enrollment in the existing Course)
\* into a Batch with enrolledStudents >= maxStudents and allowWaitlist = false
\* fails with 'Batch is full and waitlist is not allowed' and writes nothing.
C4_FullBatchRefused ==
  \A s \in StudentIds, c \in DOMAIN courses, b \in DOMAIN batches,
     amount \in PaymentAmounts :
    (/\ ~HasRecord(enrollments, s, c)
     /\ batches[b].enrolledStudents >= batches[b].maxStudents
     /\ ~batches[b].allowWaitlist)
      => LET r == enrollStudent(Db, EnrollRequest(s, c, b, amount))
         IN /\ r.result = "Batch is full and waitlist is not allowed"
            /\ r.db = Db

C4_Witness ==
  /\ last = Call("enrollStudent", "Batch is full and waitlist is not allowed")
  /\ \E b \in DOMAIN batches :
       /\ batches[b].enrolledStudents >= batches[b].maxStudents
       /\ ~batches[b].allowWaitlist

\* C5: enrollStudent into a full Batch with allowWaitlist = true succeeds with
\* an active Enrollment, takes Batch.enrolledStudents past maxStudents and
\* leaves waitlistCount alone; and no operation of EnrollmentService or
\* BatchService ever moves waitlistCount from its initial 0.
C5_WaitlistNeverUsed ==
  /\ \A s \in StudentIds, c \in DOMAIN courses, b \in DOMAIN batches,
        amount \in PaymentAmounts :
       (/\ ~HasRecord(enrollments, s, c)
        /\ batches[b].enrolledStudents >= batches[b].maxStudents
        /\ batches[b].allowWaitlist)
         => LET r == enrollStudent(Db, EnrollRequest(s, c, b, amount))
            IN /\ r.result = "ok"
               /\ r.db.enrollments[nextId.enrollment].status = "active"
               /\ r.db.batches[b].enrolledStudents = batches[b].enrolledStudents + 1
               /\ r.db.batches[b].enrolledStudents > batches[b].maxStudents
               /\ r.db.batches[b].waitlistCount = batches[b].waitlistCount
  /\ \A b \in DOMAIN batches : batches[b].waitlistCount = 0

C7_OneIssuerSucceeds ==
  \A p, q \in Procs :
    (/\ p # q
     /\ calls[p].op = "issueCertificate" /\ calls[q].op = "issueCertificate"
     /\ calls[p].enr = calls[q].enr
     /\ calls[p].pc = "done" /\ calls[q].pc = "done"
     /\ calls[p].result = "ok")
      => calls[q].result # "ok"

\* C8: with a Course and a Batch of it, both of capacity 1 and empty, the batch
\* without waitlist: enroll(A) succeeds, counters 1/1; enroll(B) fails with
\* 'Batch is full and waitlist is not allowed', counters still 1/1; drop(A)
\* gives 0/0; enroll(B) succeeds.  And whenever an enrollment of a full
\* no-waitlist batch is dropped, enrollStudent into that batch of another
\* student without a record in the course then succeeds.
C8_Scenario(c, b, A, B, amount) ==
  LET idA == nextId.enrollment
      r1 == enrollStudent(Db, EnrollRequest(A, c, b, amount))
      r2 == enrollStudent(r1.db, EnrollRequest(B, c, b, amount))
      r3 == dropEnrollment(r2.db, idA)
      r4 == enrollStudent(r3.db, EnrollRequest(B, c, b, amount))
      Counters(db) == <<db.courses[c].enrolledStudents, db.batches[b].enrolledStudents>>
  IN /\ r1.result = "ok" /\ Counters(r1.db) = <<1, 1>>
     /\ r2.result = "Batch is full and waitlist is not allowed"
     /\ r2.db = r1.db
     /\ r3.result = "true" /\ Counters(r3.db) = <<0, 0>>
     /\ r3.db.enrollments[idA].status = "dropped"
     /\ r4.result = "ok" /\ Counters(r4.db) = <<1, 1>>

C8_ScenarioStart(c, b, A, B) ==
  /\ c \in DOMAIN courses /\ b \in DOMAIN batches
  /\ A # B
  /\ courses[c].maxStudents = 1 /\ courses[c].enrolledStudents = 0
  /\ batches[b].courseId = c /\ ~batches[b].allowWaitlist
  /\ batches[b].maxStudents = 1 /\ batches[b].enrolledStudents = 0
  /\ ~HasRecord(enrollments, A, c) /\ ~HasRecord(enrollments, B, c)

C8_DropFreesSeat ==
  \A id \in DOMAIN enrollments :
    LET b == enrollments[id].batchId
    IN (/\ DroppedNow(id)
        /\ b \in DOMAIN batches
        /\ ~batches[b].allowWaitlist
        /\ batches[b].enrolledStudents >= batches[b].maxStudents)
         => \A s \in StudentIds \ {enrollments[id].studentId}, c \in DOMAIN courses',
               amount \in PaymentAmounts :
              ~HasRecord(enrollments', s, c)
                => enrollStudent(Db', EnrollRequest(s, c, b, amount)).result = "ok"

C8_DropThenEnroll ==
  /\ [](\A c \in CourseIds, b \in BatchIds, A, B \in StudentIds,
           amount \in PaymentAmounts :
          C8_ScenarioStart(c, b, A, B) => C8_Scenario(c, b, A, B, amount))
  /\ [][C8_DropFreesSeat]_vars

\* the scenario's last state: A's record dropped, B's active, the batch full again
C8_Witness ==
  /\ last = Call("enrollStudent", "ok")
  /\ \E c \in DOMAIN courses, b \in DOMAIN batches, a, e \in DOMAIN enrollments :
       /\ batches[b].courseId = c /\ ~batches[b].allowWaitlist
       /\ batches[b].maxStudents = 1 /\ batches[b].enrolledStudents = 1
       /\ courses[c].maxStudents = 1 /\ courses[c].enrolledStudents = 1
       /\ enrollments[a].status = "dropped" /\ enrollments[a].batchId = b
       /\ enrollments[a].courseId = c
       /\ enrollments[e].status = "active" /\ enrollments[e].batchId = b
       /\ enrollments[e].courseId = c
       /\ enrollments[e].studentId # enrollments[a].studentId
       /\ a < e
       /\ drops[a] = 1

\* C9: under any interleaving of enrollStudent and addStudentToBatch calls at
\* most one Enrollment record exists for each (studentId, courseId) pair; the
\* call that loses the race at its insert fails and writes nothing, so that
\* once all calls are done every Batch counter equals the number of its records.
C9_UniquePair ==
  \A e1, e2 \in DOMAIN enrollments :
    (/\ enrollments[e1].studentId = enrollments[e2].studentId
     /\ enrollments[e1].courseId = enrollments[e2].courseId) => e1 = e2

C9_LoserWritesNothing ==
  \A p \in Procs :
    (calls'[p].pc = "done" /\ calls[p].pc # "done" /\ calls'[p].result # "ok")
      => UNCHANGED <<courses, batches, enrollments, nextId>>

C9_OneRecordPerPair ==
  /\ [](C9_UniquePair)
  /\ [](AllFinished =>
          \A b \in DOMAIN batches :
            batches[b].enrolledStudents
              = Cardinality(EnrollmentsOfBatch(enrollments, b)))
  /\ [][C9_LoserWritesNothing]_vars

\* a call passed its duplicate check and lost the race at the insert
C9_Witness ==
  \E p, q \in Procs :
    /\ calls[p].pc = "done" /\ calls[p].result = DuplicateKey
    /\ calls[q].op \in {"enrollStudent", "addStudentToBatch"}
    /\ calls[q].enr \in DOMAIN enrollments
    /\ enrollments[calls[q].enr].studentId = calls[p].student
    /\ enrollments[calls[q].enr].courseId = calls[p].course

\* C10: when enrollStudent and dropEnrollment calls interleave store operation
\* by store operation and no Enrollment is dropped twice, then once every call
\* is done each Course's and each Batch's enrolledStudents equals the number of
\* its Enrollments that are not dropped.
C10_CountersSettle ==
  (AllFinished /\ \A id \in EnrollmentIds : drops[id] <= 1)
    => /\ \A c \in DOMAIN courses :
            courses[c].enrolledStudents = Cardinality(LiveOfCourse(enrollments, c))
       /\ \A b \in DOMAIN batches :
            batches[b].enrolledStudents = Cardinality(LiveOfBatch(enrollments, b))

\* an enrollStudent into a batch and the dropEnrollment of its record ran side
\* by side and both are done
C10_Witness ==
  /\ AllFinished
  /\ \A id \in EnrollmentIds : drops[id] <= 1
  /\ \E p, q \in Procs :
       /\ calls[p].op = "enrollStudent" /\ calls[p].result = "ok"
       /\ calls[q].op = "dropEnrollment" /\ calls[q].result = "true"
       /\ calls[q].enr = calls[p].enr
       /\ calls[p].batch # NoBatch

\* C11: after any sequence of completed enrollStudent, dropEnrollment,
\* addStudentToBatch and removeStudentFromBatch calls, every Batch's
\* enrolledStudents equals the number of Enrollment records of that batch whose
\* status is not dropped.
C11_BatchCounterMatches ==
  \A b \in DOMAIN batches :
    batches[b].enrolledStudents = Cardinality(LiveOfBatch(enrollments, b))

\* C11, with no Enrollment dropped more than once: the counter still leaves
\* the number of records when a dropped record is removed from the batch.
C11_BatchCounterMatchesSingleDrops ==
  (\A id \in EnrollmentIds : drops[id] <= 1) => C11_BatchCounterMatches

\* C12: a Batch without waitlist whose maxStudents is not edited never holds
\* more than maxStudents in enrolledStudents, also when enrollStudent and
\* addStudentToBatch calls of different students interleave between their
\* capacity check and their increment.
C12_BatchWithinCapacity ==
  \A b \in DOMAIN batches :
    ~batches[b].allowWaitlist
      => batches[b].enrolledStudents <= batches[b].maxStudents

\* C13: in the states reached by enrollStudent calls, with or without a batch,
\* no Course holds more than maxStudents in enrolledStudents, and enrollStudent
\* into a Course that already has maxStudents Enrollments that are not dropped
\* does not succeed.
C13_CourseWithinCapacity ==
  /\ \A c \in DOMAIN courses : courses[c].enrolledStudents <= courses[c].maxStudents
  /\ \A s \in StudentIds, c \in DOMAIN courses, b \in BatchIds \cup {NoBatch},
        amount \in PaymentAmounts :
       Cardinality(LiveOfCourse(enrollments, c)) >= courses[c].maxStudents
         => enrollStudent(Db, EnrollRequest(s, c, b, amount)).result # "ok"

\* C14: enrollStudent (Course exists, no Enrollment of the pair yet) with a
\* batchId naming a Batch of another Course fails with a 'not found' error and
\* writes nothing; so does one with a batchId naming no Batch.
C14_ForeignBatchRefused ==
  \A s \in StudentIds, c \in DOMAIN courses, b \in BatchIds, amount \in PaymentAmounts :
    LET r == enrollStudent(Db, EnrollRequest(s, c, b, amount))
    IN ~HasRecord(enrollments, s, c)
         => /\ (b \in DOMAIN batches /\ batches[b].courseId # c)
                 => (r.result = "Batch not found" /\ r.db = Db)
            /\ b \notin DOMAIN batches
                 => (r.result = "Batch not found" /\ r.db = Db)

\* C14, second half alone: a batchId naming no Batch
C14_MissingBatchRefused ==
  \A s \in StudentIds, c \in DOMAIN courses, b \in BatchIds \ DOMAIN batches,
     amount \in PaymentAmounts :
    LET r == enrollStudent(Db, EnrollRequest(s, c, b, amount))
    IN ~HasRecord(enrollments, s, c) => (r.result = "Batch not found" /\ r.db = Db)

\* C15: a successful enrollStudent inserts exactly one Enrollment, with status
\* active, progress 0, no certificate and paymentStatus pending if
\* paymentAmount > 0 and paid otherwise; it adds exactly 1 to the named
\* Course's enrolledStudents, and exactly 1 to the Batch's if and only if a
\* batchId was given; every other Course, Batch and Enrollment is unchanged.
C15_EnrollEffects ==
  \A s \in StudentIds, c \in CourseIds, b \in BatchIds \cup {NoBatch},
     amount \in PaymentAmounts :
    LET r == enrollStudent(Db, EnrollRequest(s, c, b, amount))
        id == nextId.enrollment
    IN r.result = "ok"
         => /\ id \notin DOMAIN enrollments
            /\ DOMAIN r.db.enrollments = DOMAIN enrollments \cup {id}
            /\ r.db.enrollments[id]
                 = [studentId |-> s, courseId |-> c, batchId |-> b,
                    status |-> "active", progress |-> 0, certificateIssued |-> FALSE,
                    paymentStatus |-> IF amount > 0 THEN "pending" ELSE "paid"]
            /\ \A e \in DOMAIN enrollments : r.db.enrollments[e] = enrollments[e]
            /\ c \in DOMAIN courses
            /\ r.db.courses = [courses EXCEPT ![c].enrolledStudents = @ + 1]
            /\ r.db.batches = IF b # NoBatch
                                THEN [batches EXCEPT ![b].enrolledStudents = @ + 1]
                                ELSE batches
            /\ b # NoBatch => b \in DOMAIN batches

\* a free enrollment into a batch and a paid one without a batch have both
\* succeeded
C15_Witness ==
  /\ last = Call("enrollStudent", "ok")
  /\ \E e1, e2 \in DOMAIN enrollments :
       /\ enrollments[e1].paymentStatus = "paid" /\ enrollments[e1].batchId # NoBatch
       /\ enrollments[e2].paymentStatus = "pending" /\ enrollments[e2].batchId = NoBatch

\* C16: dropEnrollment on an id with no Enrollment returns false, which the
\* handler answers with 404, and changes nothing; on an existing Enrollment
\* it keeps the record and sets its status to dropped, takes 1 off the
\* enrolledStudents of the Enrollment's Course and, if the Enrollment has a
\* batchId, 1 off that Batch's.  (A Course deleted before addStudentToBatch
\* put the Enrollment into one of its batches has no counter to decrement.)
C16_DropEffects ==
  \A id \in EnrollmentIds :
    LET r == dropEnrollment(Db, id)
    IN IF id \notin DOMAIN enrollments
         THEN /\ r.result = "false"
              /\ Respond("dropEnrollment", r.result) = 404
              /\ r.db = Db
         ELSE LET c == enrollments[id].courseId
                  b == enrollments[id].batchId
              IN /\ r.result = "true"
                 /\ Respond("dropEnrollment", r.result) = 200
                 /\ r.db.enrollments = [enrollments EXCEPT ![id].status = "dropped"]
                 /\ r.db.courses = IF c \in DOMAIN courses
                                     THEN [courses EXCEPT ![c].enrolledStudents = @ - 1]
                                     ELSE courses
                 /\ b # NoBatch => b \in DOMAIN batches
                 /\ r.db.batches = IF b # NoBatch
                                     THEN [batches EXCEPT ![b].enrolledStudents = @ - 1]
                                     ELSE batches
                 /\ r.db.nextId = nextId

\* an Enrollment of a batch was dropped, and a drop of an absent id was refused
C16_Witness ==
  /\ last = Call("dropEnrollment", "false")
  /\ \E id \in DOMAIN enrollments, b \in DOMAIN batches :
       /\ enrollments[id].status = "dropped" /\ drops[id] = 1
       /\ enrollments[id].batchId = b
       /\ batches[b].enrolledStudents = 0
       /\ enrollments[id].courseId \in DOMAIN courses
       /\ courses[enrollments[id].courseId].enrolledStudents = 0

\* C17: once certificateIssued is true on an Enrollment record it stays true
\* through every later updateStudentProgress, updateEnrollmentStatus,
\* dropEnrollment and issueCertificate call.
C17_CertificateStays ==
  [][\A id \in DOMAIN enrollments :
       enrollments[id].certificateIssued
         => /\ id \in DOMAIN enrollments'
            /\ enrollments'[id].certificateIssued]_vars

\* a certificate survived a drop and a lowering of the progress
C17_Witness ==
  /\ last = Call("updateStudentProgress", "ok")
  /\ \E id \in DOMAIN enrollments :
       /\ enrollments[id].certificateIssued
       /\ enrollments[id].status = "dropped" /\ drops[id] = 1
       /\ enrollments[id].progress < FullProgress

\* C18: through the handlers, a duplicate enrollment, an enroll into a full
\* batch without waitlist, a delete of a Course or Batch that has Enrollments
\* and a second certificate issuance are each answered with status 409.
C18_ConflictsAnswered409 ==
  last.result \in {"Student already enrolled in this course",
                   "Batch is full and waitlist is not allowed",
                   "Cannot delete course with active enrollments",
                   "Cannot delete batch with active enrollments",
                   "Certificate already issued"}
    => Respond(last.op, last.result) = 409

\* what the handlers answer instead: none of the five messages holds the text
\* 'already exists', so each falls through to 500
C18_ConflictsAnswered500 ==
  last.result \in {"Student already enrolled in this course",
                   "Batch is full and waitlist is not allowed",
                   "Cannot delete course with active enrollments",
                   "Cannot delete batch with active enrollments",
                   "Certificate already issued"}
    => Respond(last.op, last.result) = 500

\* C19: deleteCourse (deleteBatch) on a Course (Batch) that some Enrollment
\* record references, dropped ones included, fails and leaves the Course
\* (Batch) and every Enrollment as they were; when no Enrollment references
\* it, the record is removed, nothing else changes and the call returns true.
C19_DeleteGuarded ==
  /\ \A c \in DOMAIN courses :
       LET r == deleteCourse(Db, c, courses[c].instructorId)
       IN IF \E e \in DOMAIN enrollments : enrollments[e].courseId = c
            THEN /\ r.result = "Cannot delete course with active enrollments"
                 /\ Respond("deleteCourse", r.result) \notin {200, 201}
                 /\ r.db = Db
            ELSE /\ r.result = "true"
                 /\ Respond("deleteCourse", r.result) = 200
                 /\ DOMAIN r.db.courses = DOMAIN courses \ {c}
                 /\ \A x \in DOMAIN r.db.courses : r.db.courses[x] = courses[x]
                 /\ r.db.batches = batches /\ r.db.enrollments = enrollments
  /\ \A b \in DOMAIN batches :
       LET r == deleteBatch(Db, b, batches[b].instructorId)
       IN IF \E e \in DOMAIN enrollments : enrollments[e].batchId = b
            THEN /\ r.result = "Cannot delete batch with active enrollments"
                 /\ Respond("deleteBatch", r.result) \notin {200, 201}
                 /\ r.db = Db
            ELSE /\ r.result = "true"
                 /\ Respond("deleteBatch", r.result) = 200
                 /\ DOMAIN r.db.batches = DOMAIN batches \ {b}
                 /\ \A x \in DOMAIN r.db.batches : r.db.batches[x] = batches[x]
                 /\ r.db.courses = courses /\ r.db.enrollments = enrollments

\* a Course whose only Enrollment is dropped was refused deletion
C19_Witness ==
  /\ last = Call("deleteCourse", "Cannot delete course with active enrollments")
  /\ \E c \in DOMAIN courses :
       /\ \E e \in DOMAIN enrollments : enrollments[e].courseId = c
       /\ \A e \in DOMAIN enrollments :
            enrollments[e].courseId = c => enrollments[e].status = "dropped"

\* C20: updateCourse, deleteCourse, publishCourse, archiveCourse,
\* updateCourseStatus, updateBatch and deleteBatch called by an authenticated
\* caller who is not the resource's instructorId leave the resource as it was.
C20_OnlyOwnerWrites ==
  /\ \A c \in DOMAIN courses : \A caller \in Callers \ {courses[c].instructorId} :
       LET Kept(r) == c \in DOMAIN r.db.courses /\ r.db.courses[c] = courses[c]
       IN /\ \A m \in 1..(MaxCapacity + 1) : Kept(updateCourse(Db, c, m, caller))
          /\ Kept(deleteCourse(Db, c, caller))
          /\ Kept(publishCourse(Db, c, caller))
          /\ Kept(archiveCourse(Db, c, caller))
          /\ \A status \in CourseStatus : Kept(updateCourseStatus(Db, c, status, caller))
  /\ \A b \in DOMAIN batches : \A caller \in Callers \ {batches[b].instructorId} :
       LET Kept(r) == b \in DOMAIN r.db.batches /\ r.db.batches[b] = batches[b]
       IN /\ \A patch \in BatchPatches : Kept(updateBatch(Db, b, patch, caller))
          /\ Kept(deleteBatch(Db, b, caller))

\* the three counters of the store: enrolledStudents of every Course,
\* enrolledStudents and waitlistCount of every Batch
CountersOf(db) ==
  [course |-> [c \in DOMAIN db.courses |-> db.courses[c].enrolledStudents],
   batch |-> [b \in DOMAIN db.batches |-> db.batches[b].enrolledStudents],
   waitlist |-> [b \in DOMAIN db.batches |-> db.batches[b].waitlistCount]]

\* updateEnrollmentStatus, updateStudentProgress, issueCertificate,
\* updateCourse, publishCourse, archiveCourse and updateCourseStatus leave the
\* three counters as they were, for every input
C21_OthersFrameCounters ==
  /\ \A id \in EnrollmentIds :
       /\ \A status \in EnrollmentStatus :
            CountersOf(updateEnrollmentStatus(Db, id, status).db) = CountersOf(Db)
       /\ \A progress \in 0..FullProgress :
            CountersOf(updateStudentProgress(Db, id, progress).db) = CountersOf(Db)
       /\ CountersOf(issueCertificate(Db, id).db) = CountersOf(Db)
  /\ \A c \in CourseIds, caller \in Callers :
       /\ \A m \in 1..(MaxCapacity + 1) :
            CountersOf(updateCourse(Db, c, m, caller).db) = CountersOf(Db)
       /\ CountersOf(publishCourse(Db, c, caller).db) = CountersOf(Db)
       /\ CountersOf(archiveCourse(Db, c, caller).db) = CountersOf(Db)
       /\ \A status \in CourseStatus :
            CountersOf(updateCourseStatus(Db, c, status, caller).db) = CountersOf(Db)

\* C21: Course.enrolledStudents, Batch.enrolledStudents and Batch.waitlistCount
\* change only in enrollStudent, dropEnrollment, addStudentToBatch and
\* removeStudentFromBatch: updateEnrollmentStatus, updateStudentProgress,
\* issueCertificate, updateCourse, updateBatch, publishCourse, archiveCourse
\* and updateCourseStatus leave all three as they were for every request body.
C21_CountersFramed ==
  /\ C21_OthersFrameCounters
  /\ \A b \in BatchIds, patch \in BatchPatches, caller \in Callers :
       CountersOf(updateBatch(Db, b, patch, caller).db) = CountersOf(Db)

\* C22: enrollStudent inserts the Enrollment, then increments the Course's
\* enrolledStudents, then (with a batchId) the Batch's, each in a store step of
\* its own and in this order; when the call stops after the insert the
\* Enrollment stays, nothing is rolled back, and no later step applies the
\* increments it missed.
C22_InsertThenIncrements ==
  [][/\ \A p \in Procs :
          LET call == calls[p]
          IN (call.op = "enrollStudent" /\ calls'[p] # call)
               => /\ (call.pc = "save" /\ calls'[p].pc # "done")
                       => /\ calls'[p].pc = "incCourse"
                          /\ calls'[p].enr \in DOMAIN enrollments' \ DOMAIN enrollments
                          /\ courses' = courses /\ batches' = batches
                  /\ (call.pc = "incCourse" /\ calls'[p].result # Stopped)
                       => /\ courses' = [courses EXCEPT
                                           ![call.course].enrolledStudents = @ + 1]
                          /\ enrollments' = enrollments /\ batches' = batches
                          /\ calls'[p].pc = IF call.batch # NoBatch
                                              THEN "incBatch" ELSE "done"
                  /\ (call.pc = "incBatch" /\ calls'[p].result # Stopped)
                       => /\ batches' = [batches EXCEPT
                                           ![call.batch].enrolledStudents = @ + 1]
                          /\ enrollments' = enrollments /\ courses' = courses
                          /\ calls'[p].pc = "done"
                  /\ (call.pc # "done" /\ calls'[p].result = Stopped)
                       => /\ call.enr \in DOMAIN enrollments'
                          /\ enrollments' = enrollments
                          /\ courses' = courses /\ batches' = batches
     /\ (DOMAIN courses' = DOMAIN courses /\ courses' # courses)
          => \E p \in Procs : calls[p].pc = "incCourse" /\ calls'[p].result # Stopped
     /\ (DOMAIN batches' = DOMAIN batches /\ batches' # batches)
          => \E p \in Procs : calls[p].pc = "incBatch" /\ calls'[p].result # Stopped
    ]_vars

\* a call stopped after its insert, every call is over, and the Enrollment
\* is there while the Course counter never got its increment
C22_Witness ==
  /\ AllFinished
  /\ \E p \in Procs :
       /\ calls[p].op = "enrollStudent" /\ calls[p].result = Stopped
       /\ calls[p].enr \in DOMAIN enrollments
       /\ enrollments[calls[p].enr].status = "active"
       /\ courses[calls[p].course].enrolledStudents
            < Cardinality(LiveOfCourse(enrollments, calls[p].course))

\* C23: every Enrollment has 0 <= progress <= 100; the updateStudentProgress
\* handler answers 400 to a progress that is not a number in [0, 100] and
\* leaves the Enrollment as it was, and a call it accepts overwrites the
\* progress whatever the old progress and the status of the Enrollment are.
C23_ProgressInRange ==
  /\ \A id \in DOMAIN enrollments :
       enrollments[id].progress >= 0 /\ enrollments[id].progress <= 100
  /\ \A id \in DOMAIN enrollments, body \in ProgressBodies :
       LET r == updateStudentProgressHandler(Db, id, body)
       IN IF body.isNumber /\ body.value >= 0 /\ body.value <= 100
            THEN body.lessonsIsArray
                   => /\ r.result = "ok"
                      /\ Respond("updateStudentProgress", r.result) = 200
                      /\ r.db = [Db EXCEPT !.enrollments[id].progress = body.value]
            ELSE /\ Respond("updateStudentProgress", r.result) = 400
                 /\ r.db = Db

\* the progress of an Enrollment that holds a certificate was lowered
C23_Witness ==
  /\ last = Call("updateStudentProgress", "ok")
  /\ \E id \in DOMAIN enrollments :
       enrollments[id].certificateIssued /\ enrollments[id].progress = FullProgress - 1

\* C24: removeStudentFromBatch on an existing Batch deletes the Enrollment
\* record of (batchId, studentId) and takes exactly 1 off that Batch's
\* enrolledStudents; with no such record it returns false and changes
\* nothing; on an absent Batch it fails with 'Batch not found ...' and changes
\* nothing; after a removal the student can be enrolled in the course again.
C24_RemoveEffects ==
  \A b \in BatchIds, s \in StudentIds :
    LET M == {e \in DOMAIN enrollments :
                enrollments[e].batchId = b /\ enrollments[e].studentId = s}
    IN \A pick \in IF M = {} THEN {0} ELSE M :
         LET r == removeStudentFromBatch(Db, b, s, pick)
         IN IF b \notin DOMAIN batches
              THEN /\ Includes(r.result, "Batch not found")
                   /\ Respond("removeStudentFromBatch", r.result) = 404
                   /\ r.db = Db
            ELSE IF M = {}
              THEN /\ r.result = "false"
                   /\ Respond("removeStudentFromBatch", r.result) = 404
                   /\ r.db = Db
            ELSE /\ r.result = "true"
                 /\ DOMAIN r.db.enrollments = DOMAIN enrollments \ {pick}
                 /\ \A e \in DOMAIN r.db.enrollments : r.db.enrollments[e] = enrollments[e]
                 /\ r.db.batches = [batches EXCEPT ![b].enrolledStudents = @ - 1]
                 /\ r.db.courses = courses
                 /\ LET c == enrollments[pick].courseId
                    IN c \in DOMAIN courses
                         => \A amount \in PaymentAmounts :
                              enrollStudent(r.db, EnrollRequest(s, c, NoBatch, amount)).result
                                = "ok"

\* a student was removed from a batch and its record is gone
C24_Witness ==
  /\ last = Call("removeStudentFromBatch", "true")
  /\ nextId.enrollment > 1
  /\ \E b \in DOMAIN batches :
       /\ batches[b].enrolledStudents = 0
       /\ \A e \in DOMAIN enrollments : enrollments[e].batchId # b

\* C25: addStudentToBatch fails with 'Student already enrolled in this course'
\* when an Enrollment of (studentId, batch.courseId) exists, and otherwise with
\* 'Batch is full' whenever enrolledStudents >= maxStudents, with or without
\* waitlist; when it succeeds it inserts one Enrollment with the Batch's
\* courseId and the given batchId and adds 1 to that Batch's enrolledStudents
\* only, every Course counter staying as it was.
C25_AddEffects ==
  \A b \in DOMAIN batches, s \in StudentIds, status \in AddStatusInputs :
    LET r == addStudentToBatch(Db, b, s, status)
        c == batches[b].courseId
        id == nextId.enrollment
    IN IF HasRecord(enrollments, s, c)
         THEN r.result = "Student already enrolled in this course" /\ r.db = Db
       ELSE IF batches[b].enrolledStudents >= batches[b].maxStudents
         THEN r.result = "Batch is full" /\ r.db = Db
       ELSE /\ r.result = "ok"
            /\ id \notin DOMAIN enrollments
            /\ DOMAIN r.db.enrollments = DOMAIN enrollments \cup {id}
            /\ \A e \in DOMAIN enrollments : r.db.enrollments[e] = enrollments[e]
            /\ r.db.enrollments[id].studentId = s
            /\ r.db.enrollments[id].courseId = c
            /\ r.db.enrollments[id].batchId = b
            /\ r.db.enrollments[id].status = status
            /\ r.db.batches = [batches EXCEPT ![b].enrolledStudents = @ + 1]
            /\ r.db.courses = courses

\* a full Batch with a waitlist refused a student, and another Batch took one
\* without its Course's counter moving
C25_Witness ==
  /\ last = Call("addStudentToBatch", "Batch is full")
  /\ \E b \in DOMAIN batches :
       /\ batches[b].allowWaitlist
       /\ batches[b].enrolledStudents >= batches[b].maxStudents
       /\ batches[b].courseId \in DOMAIN courses
       /\ courses[batches[b].courseId].enrolledStudents = 0
       /\ \E e \in DOMAIN enrollments : enrollments[e].batchId = b

\* C26: after any sequence of enrollStudent, dropEnrollment, addStudentToBatch,
\* removeStudentFromBatch and updateEnrollmentStatus calls every Course's and
\* every Batch's enrolledStudents is at least 0.
C26_CountersNonNegative ==
  /\ \A c \in DOMAIN courses : courses[c].enrolledStudents >= 0
  /\ \A b \in DOMAIN batches : batches[b].enrolledStudents >= 0

\* C26, with no Enrollment dropped more than once and no student removed from
\* a batch: the Course counter still goes below 0 when an Enrollment made by
\* addStudentToBatch, which never counted it on the Course, is dropped.
C26_CountersNonNegativeSingleDrops ==
  (/\ \A id \in EnrollmentIds : drops[id] <= 1
   /\ DOMAIN enrollments = 1..(nextId.enrollment - 1))
    => C26_CountersNonNegative


C27_Dropped(e) ==
  /\ e \in DOMAIN enrollments
  /\ enrollments[e].status = "dropped"
  /\ drops[e] >= 1

C27_EnrollRefused(db, e) ==
  \A b \in BatchIds \cup {NoBatch}, amount \in PaymentAmounts :
    LET r == enrollStudent(db, EnrollRequest(enrollments[e].studentId,
                                             enrollments[e].courseId, b, amount))
    IN /\ r.result = "Student already enrolled in this course"
       /\ r.db = db

C28_ReferencesExist ==
  \A e \in DOMAIN enrollments :
    /\ enrollments[e].courseId \in DOMAIN courses
    /\ enrollments[e].batchId # NoBatch => enrollments[e].batchId \in DOMAIN batches

\* C28: under any interleaving of deleteCourse / deleteBatch with enrollStudent /
\* addStudentToBatch, once all calls have completed every Enrollment references
\* a Course that exists and, if it has a batchId, a Batch that exists.
C28_NoDanglingEnrollment == AllFinished => C28_ReferencesExist


\* C29: in every reachable state an Enrollment with certificateIssued = TRUE has
\* progress = 100, whatever issueCertificate and updateStudentProgress calls
\* were made.
C29_CertifiedAtFullProgress ==
  \A e \in DOMAIN enrollments :
    enrollments[e].certificateIssued => enrollments[e].progress = FullProgress


C30_InBatchOf(recording, s) ==
  \E e \in DOMAIN enrollments :
    /\ enrollments[e].studentId = s
    /\ enrollments[e].batchId \in recording.allowedBatchIds

\* C30: getRecording answers 403 'Access denied to this recording' to a caller
\* with role student whenever the recording is not public, its
\* allowedStudentIds does not contain the caller and the caller has no
\* Enrollment in any of its allowedBatchIds.
C30_OutsiderRefused ==
  \A id \in DOMAIN recordings, s \in StudentIds :
    (/\ ~recordings[id].isPublic
     /\ s \notin recordings[id].allowedStudentIds
     /\ ~C30_InBatchOf(recordings[id], s))
      => getRecordingHandler(recordings, id, s, "student")
           = [status |-> 403, error |-> "Access denied to this recording"]

====
